---- MODULE Spec2Model ----
\* Model of ReticulumWebChat (src/web.py): the websocket fan-out hub, the LXMF
\* delivery callbacks writing the message ledger, and the Nomadnet downloader.
\*
\* Two execution domains are modelled.  The aiohttp event loop runs the ws
\* handlers cooperatively: a handler runs from one suspension point (an await
\* that can yield) to the next, and hubTask names the handler that is running
\* between two suspension points.  The Reticulum/LXMF stack calls the plain
\* (non-async) callbacks on its own threads; each callback runs
\* asyncio.run(...) in that thread, so its steps interleave freely with the
\* event loop and with each other.
EXTENDS Integers, Sequences, FiniteSets, TLC

\* ---------------------------------------------------------------- bounds
NSessions == 2
MaxSends == 1
MaxRecv == 2
NetThreads == 2
MaxDownloads == 2
MaxProgress == 1
MaxRejects == 1

Sessions == 1..NSessions
\* the threads of the network layer that call back into the program
Callbacks == 1..NetThreads
Dests == {"d1"}
\* message hashes: outbound messages get 1, 2, ... in the order they are
\* created, inbound messages have other hashes
OutHashes == 1..MaxSends
InHashes == {101}

Jobs == 1..MaxDownloads
\* LXMF addresses: the local one and the peers that write to it
Peers == {"d1", "d2"}
Addresses == {"me"} \cup Peers

\* the states and progress the router reports for an outbound message;
\* LXMessage.progress is a 0-1 fraction, here in units of 1/100000
Updates == {<<"SENDING", 45678>>, <<"SENT", 100000>>, <<"DELIVERED", 100000>>,
            <<"FAILED", 45678>>}

NoIt == [idx |-> 0]
NoDict == [hash |-> 0]

VARIABLES
    websocket_clients,   \* self.websocket_clients: list of sessions
    connOpen,            \* per session: the transport accepts writes
    wsPc,                \* per session: position of its ws handler
    wsIt,                \* per session: the broadcast its handler is inside
    wsLocal,             \* per session: locals of send_message (hash, dict)
    hubTask,             \* the handler running on the event loop, 0 when idle
    received,            \* per session: the events written to its socket
    display_name,        \* self.display_name
    known_destinations,  \* RNS.Identity.known_destinations: dest -> app_data
    path_requests,       \* destinations given to RNS.Transport.request_path
    cb,                  \* per network thread: the callback it is running
    firedSeq,            \* per outbound hash: the states its callbacks fired with
    lastUpserted,        \* per outbound hash: the latest-fired callback that has upserted, and the state it wrote
    cbLog,               \* how callbacks have ended: (kind, end)
    ledger,              \* rows of database.LxmfMessage, in id order
    clock,               \* datetime.now()
    lxm,                 \* the router's outbound LXMessage objects, by hash
    jobs,                \* the NomadnetDownloader objects, in creation order
    pushed,              \* per session: the snapshot events its own handler has sent it
    rejected,            \* per session: what was printed for its refused inputs
    api,                 \* the last response of /api/v1/lxmf-messages
    createdSeen,         \* per session: the hashes whose created event it was sent
    shutPc,              \* position of the shutdown handler
    shutIt               \* the list iterator of the shutdown handler

sessVars == <<websocket_clients, connOpen, wsPc, wsIt, wsLocal, hubTask>>
netVars == <<known_destinations, path_requests>>
dbVars == <<ledger, clock>>
cbVars == <<cb, firedSeq, lastUpserted, cbLog>>
obsVars == <<pushed, rejected, api, createdSeen>>
shutVars == <<shutPc, shutIt>>
vars == <<websocket_clients, connOpen, wsPc, wsIt, wsLocal, hubTask,
          received, display_name, known_destinations, path_requests, cb,
          firedSeq, lastUpserted, cbLog, ledger, clock, lxm, jobs, pushed,
          rejected, api, createdSeen, shutPc, shutIt>>

Range(f) == {f[i] : i \in DOMAIN f}

RemoveFirst(seq, x) ==
    LET i == CHOOSE k \in 1..Len(seq) : seq[k] = x /\ \A j \in 1..(k-1) : seq[j] # x
    IN  [k \in 1..(Len(seq)-1) |-> IF k < i THEN seq[k] ELSE seq[k+1]]

\* ------------------------------------------------------------ conversions
\* convert_app_data_to_string: None or undecodable bytes give None
convert_app_data_to_string(a) == IF a = "Alice" THEN "Alice" ELSE "null"

\* bytes.decode("utf-8") raises on bytes that are not utf-8
DecodeRaises(a) == a = "badbytes"

\* convert_lxmf_state_to_string
convert_lxmf_state_to_string(st) ==
    CASE st = "DRAFT" -> "draft"
      [] st = "OUTBOUND" -> "outbound"
      [] st = "SENDING" -> "sending"
      [] st = "SENT" -> "sent"
      [] st = "DELIVERED" -> "delivered"
      [] st = "FAILED" -> "failed"
      [] OTHER -> "unknown"

\* round(progress * 100, 2): the percentage in hundredths of a percent
\* (45.67 is 4567), from the fraction in units of 1/100000
ProgressPercentage(f) ==
    LET q == f \div 10
        r == f % 10
    IN  IF r > 5 \/ (r = 5 /\ q % 2 = 1) THEN q + 1 ELSE q

\* convert_lxmf_message_to_dict; title, content, fields and timestamp are
\* fixed by the message and stand together as content
convert_lxmf_message_to_dict(h, m) ==
    [hash |-> h, source_hash |-> m.source, destination_hash |-> m.destination,
     is_incoming |-> m.incoming,
     state |-> convert_lxmf_state_to_string(m.state),
     progress |-> ProgressPercentage(m.progress),
     content |-> h]

ConfigEvent == [type |-> "config", display_name |-> display_name]

KnownPeersEvent ==
    [type |-> "known_peers",
     known_peers |-> {[destination_hash |-> d,
                       app_data |-> convert_app_data_to_string(known_destinations[d])]
                      : d \in {x \in Dests : known_destinations[x] # "unknown"}}]

AnnounceEvent(d, a) ==
    [type |-> "announce", destination_hash |-> d, app_data |-> a]

LxmfEvent(type, dict) == [type |-> type, lxmf_message |-> dict]

\* ------------------------------------------------------------------ ledger
HasHash(L, h) == \E i \in 1..Len(L) : L[i].hash = h

NewRow(L, data, now) ==
    [id |-> Len(L) + 1, hash |-> data.hash, source_hash |-> data.source_hash,
     destination_hash |-> data.destination_hash, is_incoming |-> data.is_incoming,
     state |-> data.state, progress |-> data.progress, content |-> data.content,
     created_at |-> now, updated_at |-> now]

\* a plain INSERT, as the upsert would be without its on_conflict clause
UpsertNoConflictClause(L, data, now) == Append(L, NewRow(L, data, now))

\* INSERT ... ON CONFLICT DO NOTHING: the first values are kept
UpsertKeepsFirst(L, data, now) ==
    IF HasHash(L, data.hash) THEN L ELSE Append(L, NewRow(L, data, now))

\* db_upsert_lxmf_message: insert(data).on_conflict(conflict_target=[hash],
\* update=data): every key of data, updated_at included, overwrites the row
Upsert(L, data, now) ==
    IF HasHash(L, data.hash)
    THEN [i \in 1..Len(L) |->
            IF L[i].hash = data.hash
            THEN [L[i] EXCEPT !.source_hash = data.source_hash,
                              !.destination_hash = data.destination_hash,
                              !.is_incoming = data.is_incoming,
                              !.state = data.state,
                              !.progress = data.progress,
                              !.content = data.content,
                              !.updated_at = now]
            ELSE L[i]]
    ELSE Append(L, NewRow(L, data, now))

\* the unique index on LxmfMessage.hash: an INSERT of a hash that is there
\* fails with an IntegrityError
IntegrityError(L, data) == HasHash(L, data.hash)

\* ------------------------------------------------------------------- query
\* the where / orwhere of /api/v1/lxmf-messages
Matches(row, source_hash, destination_hash) ==
    \/ row.source_hash = source_hash /\ row.destination_hash = destination_hash
    \/ row.destination_hash = source_hash /\ row.source_hash = destination_hash

\* the select with its where clause alone
QueryOneWay(L, source_hash, destination_hash) ==
    LET ids == {L[i].id : i \in {k \in DOMAIN L :
                    /\ L[k].source_hash = source_hash
                    /\ L[k].destination_hash = destination_hash}}
        upTo[n \in 0..Len(L)] ==
            IF n = 0 THEN <<>>
            ELSE IF n \in ids
                 THEN Append(upTo[n-1], L[CHOOSE i \in DOMAIN L : L[i].id = n])
                 ELSE upTo[n-1]
    IN  upTo[Len(L)]

\* select().where(...).orwhere(...).order_by(id.asc()): the matching rows by
\* ascending id (ids are 1..Len(L))
Query(L, source_hash, destination_hash) ==
    LET ids == {L[i].id : i \in {k \in DOMAIN L :
                    Matches(L[k], source_hash, destination_hash)}}
        upTo[n \in 0..Len(L)] ==
            IF n = 0 THEN <<>>
            ELSE IF n \in ids
                 THEN Append(upTo[n-1], L[CHOOSE i \in DOMAIN L : L[i].id = n])
                 ELSE upTo[n-1]
    IN  upTo[Len(L)]

\* ---------------------------------------------------------------- broadcast
\* websocket_broadcast: "for websocket_client in self.websocket_clients:
\* await websocket_client.send_str(data)".  The list iterator keeps an index
\* into the live list; idx is the 1-based position of the next element.
\* start, gone and got record, for the properties, who was registered when
\* the call started, who had left before, and who was sent the event.
NewIt(ev) ==
    [idx |-> 1, ev |-> ev,
     start |-> Range(websocket_clients),
     gone |-> {s \in Sessions : wsPc[s] = "done"},
     got |-> {}]

ItExhausted(it) == it.idx > Len(websocket_clients)
ItTarget(it) == websocket_clients[it.idx]
\* send_str raises when the session's transport is closed
SendRaises(it) == ~connOpen[ItTarget(it)]
ItAfterSend(it) == [it EXCEPT !.idx = it.idx + 1, !.got = it.got \cup {ItTarget(it)}]

\* what a session observes: the first MaxRecv events written to its socket
Deliver(s, ev) ==
    [received EXCEPT ![s] = IF Len(@) < MaxRecv THEN Append(@, ev) ELSE @]

\* the callbacks are plain functions called by the network layer; each runs
\* its broadcast with asyncio.run in the calling thread
CallbackContext == "net"

FreeCb == [kind |-> "free", pc |-> "free", it |-> NoIt, hash |-> 0,
           seq |-> 0, dict |-> NoDict, ctx |-> "none"]

\* a downloader: who asked, what for, the state of its link and request in
\* the network layer, how often each continuation has been called, and the
\* terminal status its viewer has been sent
NoJob == [owner |-> 0, kind |-> "none", dest |-> "none", net |-> "none",
          nSuccess |-> 0, nFailure |-> 0, nProgress |-> 0, reason |-> "none",
          seen |-> "none", nForwarded |-> 0]

\* no request has been answered yet
NoResponse == [status |-> 0]

NoMessage == [state |-> "none", progress |-> 0, source |-> "none",
              destination |-> "none", incoming |-> FALSE]

Init ==
    /\ websocket_clients = <<>>
    /\ connOpen = [s \in Sessions |-> FALSE]
    /\ wsPc = [s \in Sessions |-> "none"]
    /\ wsIt = [s \in Sessions |-> NoIt]
    /\ wsLocal = [s \in Sessions |-> NoDict]
    /\ hubTask = 0
    /\ received = [s \in Sessions |-> <<>>]
    /\ display_name = "Anonymous Peer"
    /\ known_destinations \in [Dests -> {"unknown", "Alice"}]
    /\ path_requests = {}
    /\ cb = [c \in Callbacks |-> FreeCb]
    /\ firedSeq = [h \in OutHashes |-> <<>>]
    /\ lastUpserted = [h \in OutHashes |-> [seq |-> 0, state |-> "none"]]
    /\ cbLog = {}
    /\ ledger = <<>>
    /\ clock = 0
    /\ lxm = [h \in OutHashes |-> NoMessage]
    /\ jobs = [j \in Jobs |-> NoJob]
    /\ pushed = [s \in Sessions |-> {}]
    /\ rejected = [s \in Sessions |-> <<>>]
    /\ api = NoResponse
    /\ createdSeen = [s \in Sessions |-> {}]
    /\ shutPc = "none"
    /\ shutIt = NoIt

\* ---------------------------------------------------------------- ws handler
\* ws(): prepare, append to websocket_clients, then straight into
\* send_config_to_websocket_clients without yielding
WsConnect(s) ==
    /\ hubTask = 0
    /\ wsPc[s] = "none"
    /\ \A t \in Sessions : t < s => wsPc[t] # "none"
    /\ connOpen' = [connOpen EXCEPT ![s] = TRUE]
    /\ websocket_clients' = Append(websocket_clients, s)
    /\ wsPc' = [wsPc EXCEPT ![s] = "config"]
    /\ wsIt' = [wsIt EXCEPT ![s] =
                  [NewIt(ConfigEvent) EXCEPT !.start = Range(websocket_clients) \cup {s}]]
    /\ hubTask' = s
    /\ UNCHANGED <<obsVars, shutVars, wsLocal, received, display_name, netVars, cbVars, dbVars, lxm,
                   jobs>>

\* one iteration of the handler's broadcast loop: next() on the list iterator
\* and send_str to that client; the await inside send_str may yield
WsSend(s) ==
    /\ hubTask \in {0, s}
    /\ wsIt[s] # NoIt
    /\ ~ItExhausted(wsIt[s])
    /\ ~SendRaises(wsIt[s])
    /\ received' = Deliver(ItTarget(wsIt[s]), wsIt[s].ev)
    /\ wsIt' = [wsIt EXCEPT ![s] = ItAfterSend(@)]
    /\ hubTask' = 0
    /\ pushed' = IF ItTarget(wsIt[s]) = s /\ wsPc[s] \in {"config", "peers"}
                 THEN [pushed EXCEPT ![s] = @ \cup {wsIt[s].ev.type}]
                 ELSE pushed
    /\ createdSeen' = IF wsIt[s].ev.type = "lxmf_outbound_message_created"
                      THEN [createdSeen EXCEPT ![ItTarget(wsIt[s])] =
                              @ \cup {wsIt[s].ev.lxmf_message.hash}]
                      ELSE createdSeen
    /\ UNCHANGED <<shutVars, rejected, api, websocket_clients, connOpen, wsPc, wsLocal, display_name,
                   netVars, cbVars, dbVars, lxm, jobs>>

\* send_str raises inside the handler's broadcast: the loop is abandoned and
\* the exception reaches the caller.  Lines 152 and 155 are outside any try,
\* so the handler ends there without reaching line 173; line 163 is inside
\* the try of lines 161-167, and send_message has its own except.
WsSendRaises(s) ==
    /\ hubTask \in {0, s}
    /\ wsIt[s] # NoIt
    /\ ~ItExhausted(wsIt[s])
    /\ SendRaises(wsIt[s])
    /\ wsIt' = [wsIt EXCEPT ![s] = NoIt]
    /\ wsLocal' = [wsLocal EXCEPT ![s] = NoDict]
    /\ wsPc' = [wsPc EXCEPT ![s] = IF @ = "handling" THEN "loop" ELSE "crashed"]
    /\ hubTask' = 0
    /\ UNCHANGED <<obsVars, shutVars, websocket_clients, connOpen, received, display_name, netVars,
                   cbVars, dbVars, lxm, jobs>>

\* the iterator is exhausted: websocket_broadcast returns to its caller, which
\* runs on without yielding
WsBroadcastReturns(s) ==
    /\ hubTask \in {0, s}
    /\ wsIt[s] # NoIt
    /\ ItExhausted(wsIt[s])
    /\ IF wsPc[s] = "config"
       THEN /\ wsPc' = [wsPc EXCEPT ![s] = "peers"]
            /\ wsIt' = [wsIt EXCEPT ![s] = NewIt(KnownPeersEvent)]
            /\ hubTask' = s
       ELSE /\ wsPc' = [wsPc EXCEPT ![s] = "loop"]
            /\ wsIt' = [wsIt EXCEPT ![s] = NoIt]
            /\ hubTask' = 0
    /\ wsLocal' = [wsLocal EXCEPT ![s] = NoDict]
    /\ UNCHANGED <<obsVars, shutVars, websocket_clients, connOpen, received, display_name, netVars,
                   cbVars, dbVars, lxm, jobs>>

\* a text message is taken from the socket by "async for msg"
CanReceive(s) ==
    /\ hubTask = 0
    /\ wsPc[s] = "loop"
    /\ connOpen[s]

\* on_websocket_data_received, type "config.set"
WsConfigSet(s, config) ==
    /\ CanReceive(s)
    /\ display_name' = IF config # "absent" /\ config # "" THEN config ELSE display_name
    /\ wsPc' = [wsPc EXCEPT ![s] = "handling"]
    /\ wsIt' = [wsIt EXCEPT ![s] =
                  NewIt([type |-> "config", display_name |-> display_name'])]
    /\ hubTask' = s
    /\ UNCHANGED <<obsVars, shutVars, websocket_clients, connOpen, wsLocal, received, netVars,
                   cbVars, dbVars, lxm, jobs>>

\* the try of lines 161-167 around json.loads and on_websocket_data_received:
\* after the except the handler is back in its "async for"
PcInputErrorUncaught == "crashed"
PcAfterInputError == "loop"

\* what is printed for an input that is refused: lines 165-167 for an input
\* that is not JSON or lacks a field ("type", "config", "destination_hash",
\* ...), line 384 for a type no branch handles
Rejection(input) ==
    IF input = "unknown_type" THEN "unhandled client message type: " \o input
    ELSE "failed to process client message"

\* a malformed text message: json.loads or a data[...] lookup raises before
\* anything is changed, or no branch of on_websocket_data_received matches
WsMalformed(s, input) ==
    /\ CanReceive(s)
    /\ Len(rejected[s]) < MaxRejects
    /\ rejected' = [rejected EXCEPT ![s] = Append(@, Rejection(input))]
    /\ wsPc' = [wsPc EXCEPT ![s] =
                  IF input = "unknown_type" THEN "loop" ELSE PcAfterInputError]
    /\ UNCHANGED <<shutVars, pushed, api, createdSeen, websocket_clients, connOpen, wsIt, wsLocal,
                   hubTask, received, display_name, netVars, cbVars, dbVars,
                   lxm, jobs>>

\* the hash the router gives the next outbound message
NextOutHash == CHOOSE h \in OutHashes :
                 lxm[h] = NoMessage /\ \A k \in OutHashes : k < h => lxm[k] # NoMessage

\* send_message, lines 593-600: without a recalled identity the path is
\* requested and send_message returns
NeverBailsOut(identity) == FALSE
BailsOut(identity) == identity = "unknown"

\* on_websocket_data_received, type "lxmf.delivery" -> send_message, up to
\* message_router.handle_outbound; without a recalled identity only a path
\* request is made
WsSendMessage(s, d) ==
    /\ CanReceive(s)
    /\ IF BailsOut(known_destinations[d])
       THEN /\ path_requests' = path_requests \cup {d}
            /\ UNCHANGED <<wsPc, wsLocal, hubTask, lxm>>
       ELSE /\ \E h \in OutHashes : lxm[h] = NoMessage
            /\ lxm' = [lxm EXCEPT ![NextOutHash] =
                         [state |-> "OUTBOUND", progress |-> 0, source |-> "me",
                          destination |-> d, incoming |-> FALSE]]
            /\ wsLocal' = [wsLocal EXCEPT ![s] = [hash |-> NextOutHash]]
            /\ wsPc' = [wsPc EXCEPT ![s] = "sm_convert"]
            /\ hubTask' = s
            /\ UNCHANGED path_requests
    /\ UNCHANGED <<obsVars, shutVars, websocket_clients, connOpen, wsIt, received, display_name,
                   known_destinations, cbVars, dbVars, jobs>>

\* db_upsert_lxmf_message, line 561: the message is read into a dict
WsUpsertConvert(s) ==
    /\ hubTask = s
    /\ wsPc[s] = "sm_convert"
    /\ wsLocal' = [wsLocal EXCEPT ![s] =
                     convert_lxmf_message_to_dict(@.hash, lxm[@.hash])]
    /\ wsPc' = [wsPc EXCEPT ![s] = "sm_upsert"]
    /\ UNCHANGED <<obsVars, shutVars, websocket_clients, connOpen, wsIt, hubTask, received,
                   display_name, netVars, cbVars, dbVars, lxm, jobs>>

\* db_upsert_lxmf_message, lines 564-581
WsUpsert(s) ==
    /\ hubTask = s
    /\ wsPc[s] = "sm_upsert"
    /\ ledger' = Upsert(ledger, wsLocal[s], clock + 1)
    /\ clock' = clock + 1
    /\ wsPc' = [wsPc EXCEPT ![s] = "sm_event"]
    /\ UNCHANGED <<obsVars, shutVars, websocket_clients, connOpen, wsIt, wsLocal, hubTask, received,
                   display_name, netVars, cbVars, lxm, jobs>>

\* send_message, lines 618-621: the message is read again for the event
WsCreatedEvent(s) ==
    /\ hubTask = s
    /\ wsPc[s] = "sm_event"
    /\ wsIt' = [wsIt EXCEPT ![s] =
                  NewIt(LxmfEvent("lxmf_outbound_message_created",
                        convert_lxmf_message_to_dict(wsLocal[s].hash, lxm[wsLocal[s].hash])))]
    /\ wsPc' = [wsPc EXCEPT ![s] = "handling"]
    /\ UNCHANGED <<obsVars, shutVars, websocket_clients, connOpen, wsLocal, hubTask, received,
                   display_name, netVars, cbVars, dbVars, lxm, jobs>>

\* the peer closes the connection; the event loop closes the transport
ConnClose(s) ==
    /\ hubTask = 0
    /\ connOpen[s]
    /\ connOpen' = [connOpen EXCEPT ![s] = FALSE]
    /\ UNCHANGED <<obsVars, shutVars, websocket_clients, wsPc, wsIt, wsLocal, hubTask, received,
                   display_name, netVars, cbVars, dbVars, lxm, jobs>>

\* "async for msg" ends on the closed connection: line 173 removes the session
WsClosed(s) ==
    /\ hubTask = 0
    /\ wsPc[s] = "loop"
    /\ ~connOpen[s]
    /\ websocket_clients' = RemoveFirst(websocket_clients, s)
    /\ wsPc' = [wsPc EXCEPT ![s] = "done"]
    /\ UNCHANGED <<obsVars, shutVars, connOpen, wsIt, wsLocal, hubTask, received, display_name,
                   netVars, cbVars, dbVars, lxm, jobs>>

\* shutdown(), lines 115-121, called on the event loop when the web server
\* stops: the loop over the live list starts
Shutdown ==
    /\ hubTask = 0
    /\ shutPc = "none"
    /\ shutPc' = "closing"
    /\ shutIt' = NewIt([type |-> "shutdown"])
    /\ UNCHANGED <<obsVars, sessVars, received, display_name, netVars, cbVars,
                   dbVars, lxm, jobs>>

\* one iteration: next() on the list iterator and close() of that client;
\* the await inside close() yields, so the client's handler can run on
ShutdownClose ==
    /\ hubTask = 0
    /\ shutPc = "closing"
    /\ ~ItExhausted(shutIt)
    /\ connOpen' = [connOpen EXCEPT ![ItTarget(shutIt)] = FALSE]
    /\ shutIt' = ItAfterSend(shutIt)
    /\ UNCHANGED <<obsVars, shutPc, websocket_clients, wsPc, wsIt, wsLocal, hubTask,
                   received, display_name, netVars, cbVars, dbVars, lxm, jobs>>

\* a connection is accepted only while the web server has not shut down
WsConnectServing(s) == shutPc = "none" /\ WsConnect(s)

\* the iterator is exhausted: shutdown returns
ShutdownReturns ==
    /\ hubTask = 0
    /\ shutPc = "closing"
    /\ ItExhausted(shutIt)
    /\ shutPc' = "done"
    /\ UNCHANGED <<obsVars, shutIt, sessVars, received, display_name, netVars,
                   cbVars, dbVars, lxm, jobs>>

\* ------------------------------------------------------- network callbacks
\* the network layer has threads threads to call back from; a thread is
\* free again when its callback has returned
CanFire(c, threads) ==
    /\ c <= threads
    /\ cb[c].pc = "free"
    /\ \A k \in Callbacks : k < c => cb[k].pc # "free"

\* the callback of thread c returns (end "done") or ends by an exception that
\* its handler catches (end "caught") or that reaches the network layer
\* (end "escaped")
Return(c, end) ==
    /\ cb' = [cb EXCEPT ![c] = FreeCb]
    /\ cbLog' = cbLog \cup {<<cb[c].kind, end>>}

\* LXMFAnnounceHandler.received_announce -> on_lxmf_announce_received, called
\* by RNS.Transport on its own thread after it has recorded the announce; a
\* decode error is swallowed by received_announce
AnnounceReceived(c, d, a, threads) ==
    /\ CanFire(c, threads)
    /\ known_destinations' = [known_destinations EXCEPT ![d] = a]
    /\ IF a # "none" /\ DecodeRaises(a)
       THEN /\ cbLog' = cbLog \cup {<<"announce", "caught">>}
            /\ UNCHANGED cb
       ELSE /\ cb' = [cb EXCEPT ![c] =
                        [FreeCb EXCEPT !.kind = "announce", !.pc = "broadcast",
                                       !.ctx = CallbackContext,
                                       !.it = NewIt(AnnounceEvent(d,
                                                 IF a = "none" THEN "null" ELSE a))]]
            /\ UNCHANGED cbLog
    /\ UNCHANGED <<obsVars, shutVars, sessVars, received, display_name, path_requests, firedSeq,
                   lastUpserted, dbVars, lxm, jobs>>

\* an inbound message as the router hands it to on_lxmf_delivery
InboundMessage(d, st) ==
    [state |-> st, progress |-> 0, source |-> d, destination |-> "me",
     incoming |-> TRUE]

\* the router calls on_lxmf_delivery(message), lines 509-513
DeliveryReceived(c, h, d, st, threads) ==
    /\ CanFire(c, threads)
    /\ cb' = [cb EXCEPT ![c] =
                [FreeCb EXCEPT !.kind = "delivery", !.pc = "insert", !.hash = h,
                               !.ctx = CallbackContext,
                               !.dict = convert_lxmf_message_to_dict(h, InboundMessage(d, st))]]
    /\ UNCHANGED <<obsVars, shutVars, sessVars, received, display_name, netVars, firedSeq,
                   lastUpserted, cbLog, dbVars, lxm, jobs>>

\* save() and the broadcast are in one try (lines 510-538): when save()
\* raises, the except ends the handler and the broadcast is not reached
PcSaveErrorIgnored == "broadcast"
PcAfterSaveError == "free"

\* on_lxmf_delivery, lines 516-534: save() is an INSERT; when it raises, the
\* except of line 536 ends the handler before the broadcast
DeliveryInsert(c) ==
    /\ cb[c].pc = "insert"
    /\ IF IntegrityError(ledger, cb[c].dict)
       THEN /\ IF PcAfterSaveError = "free"
               THEN Return(c, "caught")
               ELSE /\ cb' = [cb EXCEPT ![c].pc = PcAfterSaveError,
                                        ![c].it = NewIt(LxmfEvent("lxmf.delivery",
                                                                  cb[c].dict))]
                    /\ UNCHANGED cbLog
            /\ UNCHANGED dbVars
       ELSE /\ ledger' = Append(ledger, NewRow(ledger, cb[c].dict, clock + 1))
            /\ clock' = clock + 1
            /\ cb' = [cb EXCEPT ![c].pc = "broadcast",
                                ![c].it = NewIt(LxmfEvent("lxmf.delivery", cb[c].dict))]
            /\ UNCHANGED cbLog
    /\ UNCHANGED <<obsVars, shutVars, sessVars, received, display_name, netVars, firedSeq,
                   lastUpserted, lxm, jobs>>

\* the order of the delivery states of an outbound message
Rank(st) ==
    CASE st \in {"OUTBOUND", "outbound"} -> 1
      [] st \in {"SENDING", "sending"} -> 2
      [] st \in {"SENT", "sent"} -> 3
      [] st \in {"DELIVERED", "delivered", "FAILED", "failed"} -> 4
      [] OTHER -> 0

\* the router moves an outbound message on and calls the callback registered
\* on it: on_lxmf_sending_failed for FAILED, on_lxmf_sending_state_updated
\* otherwise
RouterFire(c, h, st, pr, threads) ==
    /\ CanFire(c, threads)
    /\ lxm[h] # NoMessage
    /\ lxm[h].state \notin {"DELIVERED", "FAILED"}
    /\ Rank(st) > Rank(lxm[h].state)
    /\ firedSeq' = [firedSeq EXCEPT ![h] = Append(@, st)]
    /\ lxm' = [lxm EXCEPT ![h].state = st, ![h].progress = pr]
    /\ cb' = [cb EXCEPT ![c] =
                [FreeCb EXCEPT !.kind = IF st = "FAILED" THEN "failed" ELSE "state",
                               !.pc = "convert", !.hash = h,
                               !.seq = Len(firedSeq[h]) + 1,
                               !.ctx = CallbackContext]]
    /\ UNCHANGED <<obsVars, shutVars, sessVars, received, display_name, netVars, lastUpserted,
                   cbLog, dbVars, jobs>>

\* db_upsert_lxmf_message, line 561: the message is read into a dict
CbConvert(c) ==
    /\ cb[c].pc = "convert"
    /\ cb' = [cb EXCEPT ![c].pc = "upsert",
                        ![c].dict = convert_lxmf_message_to_dict(cb[c].hash, lxm[cb[c].hash])]
    /\ UNCHANGED <<obsVars, shutVars, sessVars, received, display_name, netVars, firedSeq,
                   lastUpserted, cbLog, dbVars, lxm, jobs>>

\* db_upsert_lxmf_message, lines 564-581
CbUpsert(c) ==
    /\ cb[c].pc = "upsert"
    /\ ledger' = Upsert(ledger, cb[c].dict, clock + 1)
    /\ clock' = clock + 1
    /\ cb' = [cb EXCEPT ![c].pc = "event"]
    /\ lastUpserted' = [lastUpserted EXCEPT ![cb[c].hash] =
                          IF cb[c].seq > @.seq
                          THEN [seq |-> cb[c].seq, state |-> cb[c].dict.state]
                          ELSE @]
    /\ UNCHANGED <<obsVars, shutVars, sessVars, received, display_name, netVars, firedSeq, cbLog,
                   lxm, jobs>>

\* on_lxmf_sending_state_updated, lines 547-550: the message is read again
CbEvent(c) ==
    /\ cb[c].pc = "event"
    /\ cb' = [cb EXCEPT ![c].pc = "broadcast",
                        ![c].it = NewIt(LxmfEvent("lxmf_message_state_updated",
                              convert_lxmf_message_to_dict(cb[c].hash, lxm[cb[c].hash])))]
    /\ UNCHANGED <<obsVars, shutVars, sessVars, received, display_name, netVars, firedSeq,
                   lastUpserted, cbLog, dbVars, lxm, jobs>>

CbSend(c) ==
    /\ cb[c].pc = "broadcast"
    /\ ~ItExhausted(cb[c].it)
    /\ ~SendRaises(cb[c].it)
    /\ received' = Deliver(ItTarget(cb[c].it), cb[c].it.ev)
    /\ cb' = [cb EXCEPT ![c].it = ItAfterSend(@)]
    /\ UNCHANGED <<obsVars, shutVars, sessVars, display_name, netVars, firedSeq, lastUpserted,
                   cbLog, dbVars, lxm, jobs>>

\* send_str raises inside the callback's broadcast: on_lxmf_delivery and
\* received_announce catch it, on_lxmf_sending_state_updated has no try
CbSendRaises(c) ==
    /\ cb[c].pc = "broadcast"
    /\ ~ItExhausted(cb[c].it)
    /\ SendRaises(cb[c].it)
    /\ Return(c, IF cb[c].kind \in {"state", "failed"} THEN "escaped" ELSE "caught")
    /\ UNCHANGED <<obsVars, shutVars, sessVars, received, display_name, netVars, firedSeq,
                   lastUpserted, dbVars, lxm, jobs>>

CbBroadcastReturns(c) ==
    /\ cb[c].pc = "broadcast"
    /\ ItExhausted(cb[c].it)
    /\ Return(c, "done")
    /\ UNCHANGED <<obsVars, shutVars, sessVars, received, display_name, netVars, firedSeq,
                   lastUpserted, dbVars, lxm, jobs>>

\* ---------------------------------------------------------------- http api
\* index, GET /api/v1/lxmf-messages: a handler of the event loop without an
\* await; a query parameter that is not given is "absent"
ApiMessages(source_hash, destination_hash) ==
    /\ hubTask = 0
    /\ api' = IF source_hash = "absent"
              THEN [status |-> 422, message |-> "source_hash is required"]
              ELSE IF destination_hash = "absent"
              THEN [status |-> 422, message |-> "destination_hash is required"]
              ELSE [status |-> 200, source_hash |-> source_hash,
                    destination_hash |-> destination_hash,
                    lxmf_messages |-> Query(ledger, source_hash, destination_hash)]
    /\ UNCHANGED <<shutVars, pushed, rejected, createdSeen, sessVars, received, display_name, netVars,
                   cbVars, dbVars, lxm, jobs>>

\* -------------------------------------------------------------- downloads
\* client.send(...) in the download continuations: aiohttp's
\* WebSocketResponse has send_str, send_bytes and send_json and no send, so
\* the attribute lookup raises before anything is written
ClientSendRaises == TRUE

DownloadEvent(j, status) ==
    [type |-> IF jobs[j].kind = "file" THEN "nomadnet.file.download"
              ELSE "nomadnet.page.download",
     status |-> status, job |-> j]

\* a continuation that would broadcast like websocket_broadcast
ContinuationBroadcasts(j, status) ==
    [s \in Sessions |->
        IF s \in Range(websocket_clients) /\ Len(received[s]) < MaxRecv
        THEN Append(received[s], DownloadEvent(j, status)) ELSE received[s]]

\* the continuation built in on_websocket_data_received sends an event to the
\* session that asked
ContinuationSends(j, status) ==
    IF ClientSendRaises THEN received
    ELSE Deliver(jobs[j].owner, DownloadEvent(j, status))

\* the terminal status the viewer of job j has been sent, after a continuation
\* that sends status
SeenAfter(j, status) == IF ClientSendRaises THEN jobs[j].seen ELSE status

\* the number of progress events the viewer of job j has been sent, after
\* on_progress_update has run once more
ForwardedAfter(j) ==
    IF ClientSendRaises THEN jobs[j].nForwarded ELSE jobs[j].nForwarded + 1

\* download(): without an identity the failure continuation is called and
\* download ends there; the link is only made with an identity
LinkMadeAlways(identity) == "link_pending"
LinkAfterRecall(identity) == IF identity = "unknown" THEN "none" ELSE "link_pending"

NextJob(j) == jobs[j] = NoJob /\ \A k \in Jobs : k < j => jobs[k] # NoJob

\* on_websocket_data_received, types "nomadnet.file.download" and
\* "nomadnet.page.download": the downloader is built and download() runs
\* inside the handler; an exception is caught at line 164
WsDownload(s, j, kind, d) ==
    /\ CanReceive(s)
    /\ NextJob(j)
    /\ path_requests' = path_requests \cup {d}
    /\ jobs' = [jobs EXCEPT ![j] =
                  [NoJob EXCEPT !.owner = s, !.kind = kind, !.dest = d,
                                !.net = LinkAfterRecall(known_destinations[d]),
                                !.nFailure = IF known_destinations[d] = "unknown"
                                             THEN 1 ELSE 0,
                                !.reason = IF known_destinations[d] = "unknown"
                                           THEN "identity not found" ELSE "none"]]
    \* here the continuation runs on the hub's thread, inside the running
    \* loop: asyncio.run raises there even for a coroutine that exists
    /\ cbLog' = IF known_destinations[d] = "unknown"
                THEN cbLog \cup {<<"download", "caught">>} ELSE cbLog
    /\ UNCHANGED <<obsVars, shutVars, sessVars, received, display_name, known_destinations, cb,
                   firedSeq, lastUpserted, dbVars, lxm>>

\* the network layer calls link_established: the request is sent
LinkEstablished(j) ==
    /\ jobs[j].net = "link_pending"
    /\ jobs' = [jobs EXCEPT ![j].net = "request_pending"]
    /\ UNCHANGED <<obsVars, shutVars, sessVars, received, display_name, netVars, cbVars, dbVars, lxm>>

\* the link is not established (no path, no answer, establishment timeout):
\* the network layer closes it; download() registered only
\* established_callback on it, so nothing of the downloader is called
LinkFails(j) ==
    /\ jobs[j].net = "link_pending"
    /\ jobs' = [jobs EXCEPT ![j].net = "link_closed"]
    /\ UNCHANGED <<obsVars, shutVars, sessVars, received, display_name, netVars, cbVars, dbVars, lxm>>

\* the network layer calls on_progress while the request is pending
RequestProgress(j) ==
    /\ jobs[j].net = "request_pending"
    /\ jobs[j].nProgress < MaxProgress
    /\ jobs' = [jobs EXCEPT ![j].nProgress = @ + 1,
                            ![j].nForwarded = ForwardedAfter(j)]
    /\ received' = ContinuationSends(j, "progress")
    /\ cbLog' = IF ClientSendRaises THEN cbLog \cup {<<"download", "escaped">>} ELSE cbLog
    /\ UNCHANGED <<obsVars, shutVars, sessVars, display_name, netVars, cb, firedSeq, lastUpserted,
                   dbVars, lxm>>

\* the network layer concludes a request once, by on_response or on_failed.
\* on_response -> on_download_success: the page is decoded, the file response
\* is taken apart; either raises on a malformed response, before the
\* continuation
RequestResponse(j, response) ==
    /\ jobs[j].net = "request_pending"
    /\ jobs' = [jobs EXCEPT ![j].net = "concluded",
                            ![j].nSuccess = IF response = "malformed" THEN @ ELSE @ + 1,
                            ![j].seen = IF response = "malformed" THEN @
                                        ELSE SeenAfter(j, "success")]
    /\ received' = IF response = "malformed" THEN received
                   ELSE ContinuationSends(j, "success")
    /\ cbLog' = IF response = "malformed" \/ ClientSendRaises
                THEN cbLog \cup {<<"download", "escaped">>} ELSE cbLog
    /\ UNCHANGED <<obsVars, shutVars, sessVars, display_name, netVars, cb, firedSeq, lastUpserted,
                   dbVars, lxm>>

\* on_failed -> on_download_failure("request_failed")
RequestFailed(j) ==
    /\ jobs[j].net = "request_pending"
    /\ jobs' = [jobs EXCEPT ![j].net = "concluded", ![j].nFailure = @ + 1,
                            ![j].reason = "request_failed",
                            ![j].seen = SeenAfter(j, "error")]
    /\ received' = ContinuationSends(j, "error")
    /\ cbLog' = IF ClientSendRaises THEN cbLog \cup {<<"download", "escaped">>} ELSE cbLog
    /\ UNCHANGED <<obsVars, shutVars, sessVars, display_name, netVars, cb, firedSeq, lastUpserted,
                   dbVars, lxm>>

\* ---------------------------------------------------------- specifications
\* the fan-out hub: sessions come and go, set the configuration, and
\* announces arrive from the network
Next ==
    \/ \E s \in Sessions : WsConnect(s)
    \/ \E s \in Sessions : WsSend(s)
    \/ \E s \in Sessions : WsSendRaises(s)
    \/ \E s \in Sessions : WsBroadcastReturns(s)
    \/ \E s \in Sessions, n \in {"Bob"} : WsConfigSet(s, n)
    \/ \E s \in Sessions : ConnClose(s)
    \/ \E s \in Sessions : WsClosed(s)
    \/ \E c \in Callbacks, d \in Dests :
          AnnounceReceived(c, d, "Alice", 1)
    \/ \E c \in Callbacks : CbSend(c)
    \/ \E c \in Callbacks : CbSendRaises(c)
    \/ \E c \in Callbacks : CbBroadcastReturns(c)

Spec == Init /\ [][Next]_vars

\* the steps of one session sending messages and of the callbacks on messages
MessageSteps ==
    \/ WsConnect(1)
    \/ WsSend(1)
    \/ WsBroadcastReturns(1)
    \/ \E d \in Dests : WsSendMessage(1, d)
    \/ WsUpsertConvert(1)
    \/ WsUpsert(1)
    \/ WsCreatedEvent(1)
    \/ \E c \in Callbacks : DeliveryInsert(c)
    \/ \E c \in Callbacks : CbConvert(c)
    \/ \E c \in Callbacks : CbUpsert(c)
    \/ \E c \in Callbacks : CbEvent(c)
    \/ \E c \in Callbacks : CbSend(c)
    \/ \E c \in Callbacks : CbBroadcastReturns(c)

\* the delivery state machine with the network layer calling back from
\* NetThreads threads at once
NextLedger ==
    \/ MessageSteps
    \/ \E c \in Callbacks, h \in InHashes, d \in Dests :
          DeliveryReceived(c, h, d, "DELIVERED", NetThreads)
    \/ \E c \in Callbacks, h \in OutHashes, u \in Updates :
          RouterFire(c, h, u[1], u[2], NetThreads)

SpecLedger == Init /\ [][NextLedger]_vars

\* the delivery state machine with the network layer calling back from one
\* thread: a callback returns before the next one is called
NextDb ==
    \/ MessageSteps
    \/ \E c \in Callbacks, h \in InHashes, d \in Dests :
          DeliveryReceived(c, h, d, "DELIVERED", 1)
    \/ \E c \in Callbacks, h \in OutHashes,
          u \in {v \in Updates : v[1] # "SENT"} :
          RouterFire(c, h, u[1], u[2], 1)

SpecDb == Init /\ [][NextDb]_vars

\* the delivery state machine with a session that can close its connection
\* while callbacks broadcast
NextCallbacks ==
    \/ NextDb
    \/ ConnClose(1)
    \/ WsClosed(1)
    \/ \E c \in Callbacks : CbSendRaises(c)

SpecCallbacks == Init /\ [][NextCallbacks]_vars

\* the message query over a ledger of sent and received messages
NextQuery ==
    \/ WsConnect(1)
    \/ WsSend(1)
    \/ WsBroadcastReturns(1)
    \/ \E d \in Dests : WsSendMessage(1, d)
    \/ WsUpsertConvert(1)
    \/ WsUpsert(1)
    \/ WsCreatedEvent(1)
    \/ \E c \in Callbacks, m \in {<<101, "d1">>, <<102, "d2">>} :
          DeliveryReceived(c, m[1], m[2], "DELIVERED", 1)
    \/ \E c \in Callbacks : DeliveryInsert(c)
    \/ \E c \in Callbacks : CbSend(c)
    \/ \E c \in Callbacks : CbBroadcastReturns(c)
    \/ \E q \in {<<"me", "d1">>, <<"d1", "me">>, <<"d2", "me">>,
                  <<"absent", "me">>, <<"me", "absent">>} : ApiMessages(q[1], q[2])

SpecQuery == Init /\ [][NextQuery]_vars

\* a session sending well-formed and malformed inputs
NextInput ==
    \/ WsConnect(1)
    \/ WsSend(1)
    \/ WsBroadcastReturns(1)
    \/ \E n \in {"Bob", "Carol", ""} : WsConfigSet(1, n)
    \/ \E d \in Dests : WsSendMessage(1, d)
    \/ WsUpsertConvert(1)
    \/ WsUpsert(1)
    \/ WsCreatedEvent(1)
    \/ \E input \in {"not_json", "missing_field", "unknown_type"} :
          WsMalformed(1, input)

SpecInput == Init /\ [][NextInput]_vars

\* announces with and without a label that decodes, and a session connecting
NextAnnounce ==
    \/ WsConnect(1)
    \/ WsSend(1)
    \/ WsBroadcastReturns(1)
    \/ \E c \in Callbacks, d \in Dests, a \in {"none", "Alice", "badbytes"} :
          AnnounceReceived(c, d, a, 1)
    \/ \E c \in Callbacks : CbSend(c)
    \/ \E c \in Callbacks : CbBroadcastReturns(c)

SpecAnnounce == Init /\ [][NextAnnounce]_vars

\* the downloader: a session asks for pages and files, the network layer
\* establishes links and answers requests
NextDownload ==
    \/ WsConnect(1)
    \/ WsSend(1)
    \/ WsBroadcastReturns(1)
    \/ \E j \in Jobs, kind \in {"page", "file"}, d \in Dests :
          WsDownload(1, j, kind, d)
    \/ \E j \in Jobs : LinkEstablished(j)
    \/ \E j \in Jobs : LinkFails(j)
    \/ \E j \in Jobs : RequestProgress(j)
    \/ \E j \in Jobs, response \in {"ok", "malformed"} : RequestResponse(j, response)
    \/ \E j \in Jobs : RequestFailed(j)

SpecDownload == Init /\ [][NextDownload]_vars

\* downloads asked by session 1 while session 2 registers
NextOwner ==
    \/ \E s \in {1, 2} : WsConnect(s)
    \/ \E s \in {1, 2} : WsSend(s)
    \/ \E s \in {1, 2} : WsBroadcastReturns(s)
    \/ \E j \in Jobs, kind \in {"page", "file"}, d \in Dests :
          WsDownload(1, j, kind, d)
    \/ \E j \in Jobs : LinkEstablished(j)
    \/ \E j \in Jobs : RequestProgress(j)
    \/ \E j \in Jobs, response \in {"ok", "malformed"} : RequestResponse(j, response)
    \/ \E j \in Jobs : RequestFailed(j)

SpecOwner == Init /\ [][NextOwner]_vars

\* the web server shuts down with sessions registered; it has stopped
\* accepting connections when shutdown() is called
NextShutdown ==
    \/ \E s \in Sessions : WsConnectServing(s)
    \/ \E s \in Sessions : WsSend(s)
    \/ \E s \in Sessions : WsSendRaises(s)
    \/ \E s \in Sessions : WsBroadcastReturns(s)
    \/ \E s \in Sessions : WsClosed(s)
    \/ Shutdown
    \/ ShutdownClose
    \/ ShutdownReturns

SpecShutdown == Init /\ [][NextShutdown]_vars

\* -------------------------------------------------------------- properties
\* the sessions a broadcast has to reach: registered when it started, still
\* registered, and with an open connection
Stable(it) == {s \in it.start \cap Range(websocket_clients) : connOpen[s]}

\* a step in which the broadcast of session s's handler returns / raises
WsReturns(s) == wsIt[s] # NoIt /\ ItExhausted(wsIt[s]) /\ wsPc'[s] # wsPc[s]
WsRaises(s) == wsIt[s] # NoIt /\ ~ItExhausted(wsIt[s]) /\ wsIt'[s] = NoIt
\* a step in which the broadcast of the callback on thread c returns / raises
CbReturns(c) == cb[c].pc = "broadcast" /\ ItExhausted(cb[c].it) /\ cb'[c].pc = "free"
CbRaises(c) == cb[c].pc = "broadcast" /\ ~ItExhausted(cb[c].it) /\ cb'[c].pc = "free"

\* C1: the first event a session observes is a config event and the second a
\* known_peers event
SnapshotOrdering ==
    \A s \in Sessions :
        /\ Len(received[s]) >= 1 => received[s][1].type = "config"
        /\ Len(received[s]) >= 2 => received[s][2].type = "known_peers"

\* C2: when a broadcast ends, every session that was registered and open from
\* its start to its end has been sent the event, and no session that had
\* left before it started has
FanOutComplete ==
    [][/\ \A s \in Sessions :
            WsReturns(s) \/ WsRaises(s) =>
                /\ Stable(wsIt[s]) \subseteq wsIt[s].got
                /\ wsIt[s].got \cap wsIt[s].gone = {}
       /\ \A c \in Callbacks :
            CbReturns(c) \/ CbRaises(c) =>
                /\ Stable(cb[c].it) \subseteq cb[c].it.got
                /\ cb[c].it.got \cap cb[c].it.gone = {}]_vars

\* C3: a failed send never ends a broadcast: no broadcast raises to its
\* caller, and a broadcast that met a closed session has still reached every
\* other registered session when it ends
FailureIsolation ==
    [][/\ \A s \in Sessions :
            /\ ~WsRaises(s)
            /\ WsReturns(s) => Stable(wsIt[s]) \subseteq wsIt[s].got
       /\ \A c \in Callbacks :
            /\ ~CbRaises(c)
            /\ CbReturns(c) => Stable(cb[c].it) \subseteq cb[c].it.got]_vars

\* C4: a broadcast that returns after a session was removed from the
\* registry during it has been sent to every session that stayed registered
DeregistrationRace ==
    [][/\ \A s \in Sessions :
            WsReturns(s) /\ ~(wsIt[s].start \subseteq Range(websocket_clients)) =>
                Stable(wsIt[s]) \subseteq wsIt[s].got
       /\ \A c \in Callbacks :
            CbReturns(c) /\ ~(cb[c].it.start \subseteq Range(websocket_clients)) =>
                Stable(cb[c].it) \subseteq cb[c].it.got]_vars

\* a callback that is about to write the ledger or is iterating the registry
Accessing(c) == cb[c].pc \in {"insert", "upsert", "broadcast"}

\* C5: a callback writes the ledger and iterates the registry only in the
\* hub's context, so no two callbacks are at such an access at once
HandOff ==
    /\ \A c \in Callbacks : Accessing(c) => cb[c].ctx = "hub"
    /\ \A c, k \in Callbacks : Accessing(c) /\ Accessing(k) => c = k

RowOf(L, h) == L[CHOOSE i \in DOMAIN L : L[i].hash = h]

\* C6: whenever a state-updated or failed callback has upserted, the row of
\* its hash holds the state written by the latest-fired callback among those
\* that have upserted
UpsertOrder ==
    [][\A c \in Callbacks :
          cb[c].pc = "upsert" /\ cb'[c].pc = "event" =>
              RowOf(ledger', cb[c].hash).state = lastUpserted'[cb[c].hash].state]_vars

\* every callback fired for h has been handled and no handler is still busy
\* creating the row of h
Handled(h) ==
    /\ \A c \in Callbacks : cb[c].hash # h
    /\ \A s \in Sessions : wsLocal[s].hash # h

\* C7: once the callbacks sending, sent, delivered of one hash have fired in
\* this order and have all been handled, the row of the hash is "delivered"
FinalStateDelivered ==
    \A h \in OutHashes :
        firedSeq[h] = <<"SENDING", "SENT", "DELIVERED">> /\ Handled(h) =>
            /\ HasHash(ledger, h)
            /\ RowOf(ledger, h).state = "delivered"

\* the dicts db_upsert_lxmf_message can be given
UpsertProbes ==
    {convert_lxmf_message_to_dict(h, [state |-> u[1], progress |-> u[2],
                                      source |-> "me", destination |-> d,
                                      incoming |-> FALSE]) :
        h \in OutHashes \cup InHashes,
        u \in {v \in Updates : v[1] \in {"SENDING", "DELIVERED"}}, d \in Dests}

RowsOf(L, h) == {i \in DOMAIN L : L[i].hash = h}

SameFields(row, data) ==
    /\ row.hash = data.hash
    /\ row.source_hash = data.source_hash
    /\ row.destination_hash = data.destination_hash
    /\ row.is_incoming = data.is_incoming
    /\ row.state = data.state
    /\ row.progress = data.progress
    /\ row.content = data.content

\* two upserts of one hash into ledger L leave exactly one row of that hash,
\* with the fields of the second; upserting the same data twice gives the
\* ledger of upserting it once, but for updated_at (\o <<>> only makes each
\* result a sequence value)
IdempotentOn(L, now) ==
    \A d1 \in UpsertProbes :
        LET L1 == Upsert(L, d1, now + 1) \o <<>>
        IN  \A d2 \in {d \in UpsertProbes : d.hash = d1.hash} :
                LET L2 == Upsert(L1, d2, now + 2) \o <<>>
                    rows == RowsOf(L2, d2.hash)
                IN  /\ Cardinality(rows) = 1
                    /\ \A i \in rows : SameFields(L2[i], d2)
                    /\ d1 = d2 =>
                         /\ Len(L2) = Len(L1)
                         /\ \A i \in DOMAIN L1 :
                              [L2[i] EXCEPT !.updated_at = 0] =
                              [L1[i] EXCEPT !.updated_at = 0]

\* C8: on every ledger the program reaches (the empty one it starts with and
\* the one after each step that writes the ledger), two upserts of one hash
\* leave exactly one row of that hash, with the fields of the second, and
\* upserting the same data twice gives the ledger of upserting it once
UpsertIdempotent ==
    [][ledger' # ledger =>
          /\ ledger = <<>> => IdempotentOn(ledger, clock)
          /\ IdempotentOn(ledger', clock')]_vars

\* a row that was upserted again after its creation and holds the later state
UpsertedTwice ==
    \E i \in DOMAIN ledger :
        /\ ledger[i].updated_at > ledger[i].created_at
        /\ ledger[i].state = "delivered"
        /\ ledger[i].progress = ProgressPercentage(100000)

\* C9: the ledger holds at most one row per message hash
OneRowPerHash ==
    \A i, k \in DOMAIN ledger : ledger[i].hash = ledger[k].hash => i = k

\* an inbound message was delivered twice and an outbound one created and
\* updated: repeated callbacks on both kinds of hash
RepeatedCallbacks ==
    /\ <<"delivery", "caught">> \in cbLog
    /\ \E h \in OutHashes : Len(firedSeq[h]) >= 2 /\ lastUpserted[h].seq >= 2
    /\ Len(ledger) = 2

\* C10: for every download job the success and the failure continuation are
\* each called at most once, and never both
DownloadOutcome ==
    \A j \in Jobs :
        /\ jobs[j].nSuccess <= 1
        /\ jobs[j].nFailure <= 1
        /\ jobs[j].nSuccess + jobs[j].nFailure <= 1

\* one job has ended by its success continuation and another by its failure
\* continuation, both after a request over an established link
BothOutcomes ==
    \E j, k \in Jobs :
        /\ jobs[j].net = "concluded" /\ jobs[j].nSuccess = 1
        /\ jobs[k].net = "concluded" /\ jobs[k].nFailure = 1
        /\ jobs[k].reason = "request_failed"

\* a job that is over: a continuation has concluded it, or its link was
\* closed before it was established
JobOver(j) ==
    \/ jobs[j].nSuccess + jobs[j].nFailure >= 1
    \/ jobs[j].net \in {"concluded", "link_closed"}

\* C11: the viewer of every download job that is over has been sent exactly
\* one terminal event, success or error
DownloadTerminal ==
    \A j \in Jobs : JobOver(j) => jobs[j].seen \in {"success", "error"}

\* C12: a job whose link was not established, or whose request failed or
\* timed out, has sent its viewer a terminal error event with a reason, and
\* nothing more is issued for it
DownloadFailureSurfaced ==
    \A j \in Jobs :
        jobs[j].net = "link_closed" \/ jobs[j].reason = "request_failed" =>
            /\ jobs[j].seen = "error"
            /\ jobs[j].reason # "none"
            /\ jobs[j].net \in {"concluded", "link_closed"}

\* C13: a job whose destination has no recalled identity has had its failure
\* continuation called once, with reason "identity not found"; it has no
\* link, no request and no progress, and its path request was made
IdentityNotFound ==
    \A j \in Jobs :
        /\ jobs[j] # NoJob /\ known_destinations[jobs[j].dest] = "unknown" =>
              jobs[j].reason = "identity not found"
        /\ jobs[j].reason = "identity not found" =>
              /\ jobs[j].nFailure = 1
              /\ jobs[j].nSuccess = 0
              /\ jobs[j].nProgress = 0
              /\ jobs[j].net = "none"
              /\ jobs[j].dest \in path_requests

\* two jobs were started for a destination without identity: the first has
\* stayed as it failed while the second was started
TwoWithoutIdentity ==
    /\ jobs[1].reason = "identity not found"
    /\ jobs[2].reason = "identity not found"

\* C14: no callback of the network layer has ended by an exception that
\* reached the network layer
NoEscape == \A e \in cbLog : e[2] # "escaped"

\* C15: the query for (a, b) returns each row between a and b, in either
\* direction, once, and no other row, by ascending id and creation time; for
\* (b, a) it returns the same rows
QueryCorrect ==
    \A a, b \in Addresses :
        LET q == Query(ledger, a, b) \o <<>>
            p == Query(ledger, b, a) \o <<>>
        IN  /\ Range(q) = {ledger[i] : i \in {k \in DOMAIN ledger :
                                \/ ledger[k].source_hash = a /\ ledger[k].destination_hash = b
                                \/ ledger[k].source_hash = b /\ ledger[k].destination_hash = a}}
            /\ Len(q) = Cardinality(Range(q))
            /\ \A i, k \in DOMAIN q :
                  i < k => q[i].id < q[k].id /\ q[i].created_at <= q[k].created_at
            /\ Range(p) = Range(q)

\* the query for (d1, me) was answered with the message sent to d1 and then
\* the message received from d1, while the ledger held a message of d2 too
QueryAnswered ==
    /\ api.status = 200
    /\ api.source_hash = "d1" /\ api.destination_hash = "me"
    /\ Len(api.lxmf_messages) = 2
    /\ api.lxmf_messages[1].source_hash = "me"
    /\ api.lxmf_messages[2].source_hash = "d1"
    /\ \E i \in DOMAIN ledger : ledger[i].source_hash = "d2"

DecodeErrorsNulled ==
    [][/\ \A d \in Dests :
            known_destinations'[d] # known_destinations[d] =>
                \E c \in Callbacks :
                    /\ cb'[c].kind = "announce"
                    /\ cb'[c].pc = "broadcast"
                    /\ cb'[c].it.ev =
                         AnnounceEvent(d, convert_app_data_to_string(known_destinations'[d]))
       /\ \A s \in Sessions :
            wsIt'[s] # wsIt[s] /\ wsPc'[s] = "peers" =>
                \A d \in Dests :
                    known_destinations[d] # "unknown" =>
                        [destination_hash |-> d,
                         app_data |-> IF known_destinations[d] = "Alice"
                                      THEN "Alice" ELSE "null"]
                            \in wsIt'[s].ev.known_peers]_vars

\* C18: the progress stored in every ledger row is the 0-1 fraction the
\* network layer reported, never the 0-100 percentage.  The stored number is
\* held in hundredths (45.68 is 4568, 1.0 is 100) and a reported fraction in
\* hundred-thousandths (0.45678 is 45678), so a stored fraction is at most
\* 100 and, times 1000, is a fraction some message reported
ProgressStoredAsFraction ==
    \A i \in DOMAIN ledger :
        /\ ledger[i].progress <= 100
        /\ ledger[i].progress * 1000 \in {0} \cup {u[2] : u \in Updates}

\* the step a download job is at: 0 not started, 3 link-pending,
\* 4 request-pending, 5 over (success or failed); requesting-path (1) and
\* resolving-identity (2) are passed inside download()
JobStep(job) ==
    IF job = NoJob THEN 0
    ELSE IF job.net \in {"link_pending", "link_closed"} THEN 3
    ELSE IF job.net = "request_pending" THEN 4
    ELSE 5

\* C19: a download job moves forward only: it starts by requesting the path
\* and recalling the identity, is link-pending only with an identity, has its
\* request issued only from link-pending by the link-established callback,
\* succeeds only from request-pending, and once over it does not change
DownloadStepOrder ==
    [][\A j \in Jobs :
          jobs'[j] # jobs[j] =>
              /\ JobStep(jobs'[j]) >= JobStep(jobs[j])
              /\ JobStep(jobs[j]) # 5
              /\ JobStep(jobs[j]) = 0 =>
                    /\ jobs'[j].dest \in path_requests'
                    /\ IF known_destinations[jobs'[j].dest] = "unknown"
                       THEN JobStep(jobs'[j]) = 5 /\ jobs'[j].nFailure = 1
                       ELSE jobs'[j].net = "link_pending" /\ jobs'[j].nFailure = 0
              /\ JobStep(jobs'[j]) = 4 /\ JobStep(jobs[j]) # 4 =>
                    jobs[j].net = "link_pending"
              /\ JobStep(jobs[j]) = 4 /\ JobStep(jobs'[j]) = 4 =>
                    jobs'[j].nSuccess = 0 /\ jobs'[j].nFailure = 0
              /\ jobs'[j].nSuccess > jobs[j].nSuccess =>
                    jobs[j].net = "request_pending" /\ JobStep(jobs'[j]) = 5
              /\ jobs'[j].nFailure > jobs[j].nFailure =>
                    JobStep(jobs[j]) \in {0, 4} /\ JobStep(jobs'[j]) = 5]_vars

\* a job went through every step: its link was established, its request
\* made progress and was answered, and the job after it is still link-pending
WentThroughEveryStep ==
    /\ jobs[1].net = "concluded"
    /\ jobs[1].nSuccess = 1
    /\ jobs[1].nProgress = 1
    /\ jobs[2].net = "link_pending"

\* C20: an input of a session starts being processed only when the session
\* has been sent both synchronization events, config and known_peers, by its
\* own registration; and a session whose registration ended by a failed push
\* never processes an input
SyncBeforeInput ==
    [][\A s \in Sessions :
          /\ wsPc'[s] = "handling" /\ wsPc[s] # "handling" =>
                pushed[s] = {"config", "known_peers"}
          /\ wsPc[s] = "crashed" => wsPc'[s] = "crashed"]_vars

\* C21: a session whose handler has ended, by its connection closing or by a
\* failure while pushing the registration events, is not in the registry
RegistryOnlyOpen ==
    \A s \in Sessions :
        wsPc[s] \in {"done", "crashed"} => s \notin Range(websocket_clients)

\* a continuation of job j is called in this step
ContinuationCalled(j) ==
    \/ jobs'[j].nProgress # jobs[j].nProgress
    \/ jobs'[j].nSuccess # jobs[j].nSuccess
    \/ jobs'[j].nFailure # jobs[j].nFailure

\* C22: a step in which a continuation of a download job is called sends
\* nothing to a session other than the one that asked for the job and leaves
\* the ledger as it is; and no session has received a download event of a
\* job it did not ask for
DownloadOwnerOnly ==
    [][/\ \A j \in Jobs :
            ContinuationCalled(j) =>
                /\ ledger' = ledger
                /\ \A s \in Sessions :
                      s # jobs'[j].owner => received'[s] = received[s]
       /\ \A s \in Sessions : \A i \in DOMAIN received'[s] :
            received'[s][i].type \in {"nomadnet.file.download",
                                      "nomadnet.page.download"} =>
                jobs'[received'[s][i].job].owner = s]_vars

\* a download asked by session 1 made progress and succeeded while session 2
\* was registered
OwnerAmongOthers ==
    /\ jobs[1].owner = 1
    /\ jobs[1].nProgress = 1
    /\ jobs[1].nSuccess = 1
    /\ Range(websocket_clients) = {1, 2}

\* C23: the viewer of a download job has been sent one progress event for
\* each progress callback the network layer has fired for the job
ProgressForwarded ==
    \A j \in Jobs : jobs[j].nForwarded = jobs[j].nProgress

\* C24: a delivery callback starts its broadcast only in the step in which
\* it has inserted the row of its message, so not when the insert fails; and
\* every lxmf.delivery event a session has received carries a hash that is
\* in the ledger
InsertBeforeDelivery ==
    [][/\ \A c \in Callbacks :
            /\ cb'[c].kind = "delivery"
            /\ cb'[c].pc = "broadcast"
            /\ cb[c].pc # "broadcast"
            => /\ Len(ledger') = Len(ledger) + 1
               /\ ledger'[Len(ledger')].hash = cb'[c].hash
               /\ cb'[c].it.ev.lxmf_message.hash = cb'[c].hash
       /\ \A s \in Sessions : \A i \in DOMAIN received'[s] :
            received'[s][i].type = "lxmf.delivery" =>
                HasHash(ledger', received'[s][i].lxmf_message.hash)]_vars

\* a message was delivered twice: the first delivery was inserted and a
\* session received its event, the insert of the second failed
DeliveredTwice ==
    /\ <<"delivery", "caught">> \in cbLog
    /\ \E s \in Sessions : \E i \in DOMAIN received[s] :
          received[s][i].type = "lxmf.delivery"
    /\ \A c \in Callbacks : cb[c] = FreeCb

\* C25: a callback sends a session the lxmf_message_state_updated event of
\* a hash only after the session has been sent the
\* lxmf_outbound_message_created event of that hash
CreatedBeforeUpdated ==
    [][\A c \in Callbacks :
          /\ cb[c].pc = "broadcast"
          /\ cb[c].it.ev.type = "lxmf_message_state_updated"
          /\ cb'[c].pc = "broadcast"
          /\ cb'[c].it.idx = cb[c].it.idx + 1
          => cb[c].hash \in createdSeen[ItTarget(cb[c].it)]]_vars

\* C26: a step that requests a path for a message to a destination without
\* identity hands no message to the router, writes no ledger row, sends no
\* event and starts no broadcast; and a message is handed to the router only
\* for a destination with an identity, without a path request
SendWithoutIdentity ==
    [][/\ path_requests' # path_requests =>
            /\ \A d \in path_requests' \ path_requests :
                  known_destinations[d] = "unknown"
            /\ lxm' = lxm
            /\ ledger' = ledger
            /\ received' = received
            /\ wsIt' = wsIt
            /\ wsPc' = wsPc
            /\ cb' = cb
       /\ \A h \in OutHashes :
            lxm'[h] # NoMessage /\ lxm[h] = NoMessage =>
                /\ known_destinations[lxm'[h].destination] # "unknown"
                /\ path_requests' = path_requests]_vars

\* a message was asked for a destination without identity and the session
\* went on to set the configuration: the path was requested, there is no
\* message, no row, and the session has received only configuration events
SentToUnknown ==
    /\ path_requests = {"d1"}
    /\ known_destinations["d1"] = "unknown"
    /\ \A h \in OutHashes : lxm[h] = NoMessage
    /\ ledger = <<>>
    /\ display_name = "Carol"
    /\ wsPc[1] = "loop"

\* C27: config.set never makes the display name empty, the config event it
\* broadcasts carries the display name as it then is, and when its broadcast
\* ends every session registered and open from its start to its end has
\* been sent that event
ConfigSetBroadcast ==
    [][/\ display_name' # ""
       /\ \A s \in Sessions :
            /\ wsPc[s] = "loop" /\ wsPc'[s] = "handling" /\ wsIt'[s] # NoIt
               /\ wsIt'[s].ev.type = "config" =>
                   wsIt'[s].ev.display_name = display_name'
            /\ (WsReturns(s) \/ WsRaises(s)) /\ wsPc[s] = "handling"
               /\ wsIt[s].ev.type = "config" =>
                   Stable(wsIt[s]) \subseteq wsIt[s].got]_vars

\* C28: when shutdown has returned, every session that was registered when
\* it started has been closed by it
ShutdownClosesAll ==
    shutPc = "done" => shutIt.start \subseteq shutIt.got

====
